---- MODULE Spec2Model ----
(***************************************************************************)
(* A model of article_generator: plan acquisition (ArticlePlanner), the    *)
(* structural repair and validation of the plan, and the sequential        *)
(* content generation of ArticleWriter.                                    *)
(*                                                                         *)
(* Text.  A Python str is modelled as a sequence of lexemes.  A lexeme is  *)
(* either one punctuation or whitespace character (a member of Punct) or   *)
(* a word: a maximal non-empty run of other characters, kept as one TLA+   *)
(* string.  The regular expressions and string methods of the source only  *)
(* tell punctuation and whitespace characters apart, so they act on a      *)
(* lexeme sequence exactly as on the characters it stands for, provided    *)
(* no word of a text contains another word the code searches for.          *)
(***************************************************************************)
EXTENDS Integers, Sequences, FiniteSets, TLC

VARIABLES
    pc,               \* position of the operation under analysis
    arg,              \* argument of a pure function under analysis
    ret,              \* value returned (or the exception raised) by it
    title,            \* article title handed to the planner / writer
    response,         \* outcome of the planner's model call
    write_ok,         \* whether the plan file can be written
    planner_calls,    \* number of model calls made by generate_plan
    plan_file,        \* content of <safe_title>_plan.json, NoFile if unwritten
    article_plan,     \* plan handed to generate_article_content
    article_content,  \* document under construction
    used_examples,    \* ArticleWriter._used_examples
    node,             \* index of the next plan node to generate
    calls             \* history: section_title of every generation call made

vars == <<pc, arg, ret, title, response, write_ok, planner_calls, plan_file,
          article_plan, article_content, used_examples, node, calls>>

----------------------------------------------------------------------------
(* Text                                                                    *)

Whitespace == {" ", "\n", "\t"}

\* The backquote character (a string literal of the module cannot hold it).
Backtick == "BACKTICK"

Punct == Whitespace \cup {"{", "}", "[", "]", "\"", ":", ",", Backtick, "<", ">",
                          "/", "=", "(", ")", "-", "."}

IsWord(c) == c \notin Punct

\* s + t on str: the last word of s and the first word of t join into one word.
Cat(s, t) ==
    IF s # <<>> /\ t # <<>> /\ IsWord(s[Len(s)]) /\ IsWord(t[1])
    THEN SubSeq(s, 1, Len(s) - 1) \o <<s[Len(s)] \o t[1]>> \o Tail(t)
    ELSE s \o t

\* A text in the form the model keeps: no two adjacent words, no empty word.
IsText(s) ==
    /\ \A i \in 1..Len(s) : s[i] # ""
    /\ \A i \in 1..(Len(s) - 1) : ~(IsWord(s[i]) /\ IsWord(s[i + 1]))

\* The sequences over S of length at most n.
SeqsUpTo(S, n) == UNION {[1..k -> S] : k \in 0..n}

\* key in s, for two str values: key occurs as a contiguous run of s.
IsSubText(key, s) ==
    \E i \in 1..(Len(s) - Len(key) + 1) : SubSeq(s, i, i + Len(key) - 1) = key

----------------------------------------------------------------------------
(* Values produced by json.loads                                           *)

JNull == [kind |-> "null"]
JBool(b) == [kind |-> "bool", b |-> b]
JNum(n) == [kind |-> "num", n |-> n]
JStr(s) == [kind |-> "str", s |-> s]
JList(l) == [kind |-> "list", l |-> l]
JDict(d) == [kind |-> "dict", d |-> d]

EmptyDict == <<>>

KeyIntroduction == <<"introduction">>
KeySections == <<"sections">>
KeyConclusion == <<"conclusion">>
KeyTitle == <<"title">>
KeySubsections == <<"subsections">>
KeyDescription == <<"description">>
KeyExercices == <<"exercices">>

----------------------------------------------------------------------------
(* ArticlePlanner._validate_json_structure                                 *)

\* Python's (key in data): "True", "False", or "TypeError" when data is not a
\* container.
PyIn(key, data) ==
    CASE data.kind = "dict" ->
            IF key \in DOMAIN data.d THEN "True" ELSE "False"
      [] data.kind = "list" ->
            IF \E i \in DOMAIN data.l : data.l[i] = JStr(key)
            THEN "True" ELSE "False"
      [] data.kind = "str" ->
            IF IsSubText(key, data.s) THEN "True" ELSE "False"
      [] OTHER -> "TypeError"

required_keys == {KeyIntroduction, KeySections, KeyConclusion}

\* all(key in data for key in required_keys).  Whether (in) raises depends on
\* the type of data alone, so the iteration order of the set does not matter.
AllRequiredKeys(data) ==
    IF \E key \in required_keys : PyIn(key, data) = "TypeError" THEN "TypeError"
    ELSE IF \A key \in required_keys : PyIn(key, data) = "True" THEN "True"
    ELSE "False"

\* The loop over section[subsections], from element j on:
\* FALSE when some element makes the validator return False.
RECURSIVE SubsectionsLoopTitleOnly(_, _)
SubsectionsLoopTitleOnly(subsections, j) ==
    IF j > Len(subsections) THEN TRUE
    ELSE LET subsection == subsections[j] IN
         IF subsection.kind # "dict" THEN FALSE
         ELSE IF KeyTitle \notin DOMAIN subsection.d THEN FALSE
         ELSE SubsectionsLoopTitleOnly(subsections, j + 1)

RECURSIVE SubsectionsLoop(_, _)
SubsectionsLoop(subsections, j) ==
    IF j > Len(subsections) THEN TRUE
    ELSE LET subsection == subsections[j] IN
         IF subsection.kind # "dict" THEN FALSE
         ELSE IF KeyTitle \notin DOMAIN subsection.d
                 \/ KeyDescription \notin DOMAIN subsection.d THEN FALSE
         ELSE SubsectionsLoop(subsections, j + 1)

\* The loop over data[sections], from element i on.
RECURSIVE SectionsLoop(_, _)
SectionsLoop(sections, i) ==
    IF i > Len(sections) THEN TRUE
    ELSE LET section == sections[i] IN
         IF section.kind # "dict" THEN FALSE
         ELSE IF KeyTitle \notin DOMAIN section.d
                 \/ KeySubsections \notin DOMAIN section.d THEN FALSE
         ELSE IF section.d[KeySubsections].kind # "list" THEN FALSE
         ELSE IF ~SubsectionsLoop(section.d[KeySubsections].l, 1) THEN FALSE
         ELSE SectionsLoop(sections, i + 1)

\* The validator: "True" or "False" as returned, "TypeError" when it raises.
_validate_json_structure(data) ==
    LET present == AllRequiredKeys(data) IN
    IF present = "TypeError" THEN "TypeError"
    ELSE IF present = "False" THEN "False"
    \* data[sections]: only a dict can be subscripted with a str
    ELSE IF data.kind # "dict" THEN "TypeError"
    ELSE IF data.d[KeySections].kind # "list" THEN "False"
    ELSE IF SectionsLoop(data.d[KeySections].l, 1) THEN "True"
    ELSE "False"

----------------------------------------------------------------------------
(* ArticlePlanner._get_fallback_plan                                       *)

FallbackSubsectionMissingDescription ==
    JDict(KeyTitle :> JStr(<<"Core", " ", "Features">>))

FallbackSubsection ==
    JDict(KeyTitle :> JStr(<<"Core", " ", "Features">>)
          @@ KeyDescription :> JStr(<<"Essential", " ", "Python", " ",
                                      "features", " ", "and", " ", "concepts">>))

FallbackSection ==
    JDict(KeyTitle :> JStr(<<"Basic", " ", "Concepts">>)
          @@ KeySubsections :> JList(<<FallbackSubsection>>))

_get_fallback_plan(t) ==
    JDict(KeyIntroduction :> JStr(Cat(<<"Introduction", " ", "to", " ">>, t))
          @@ KeySections :> JList(<<FallbackSection>>)
          @@ KeyConclusion :> JStr(Cat(<<"Key", " ", "takeaways", " ",
                                         "about", " ">>, t)))

----------------------------------------------------------------------------
(* ArticlePlanner._fix_json_structure                                      *)

Min(S) == CHOOSE x \in S : \A y \in S : x <= y
Max(S) == CHOOSE x \in S : \A y \in S : x >= y

\* str.count(c) for a one-character c
Count(s, c) == Cardinality({i \in 1..Len(s) : s[i] = c})

\* c * n
Repeat(c, n) == [i \in 1..n |-> c]

\* str.strip()
Strip(s) ==
    LET keep == {i \in 1..Len(s) : s[i] \notin Whitespace} IN
    IF keep = {} THEN <<>> ELSE SubSeq(s, Min(keep), Max(keep))

\* Whether three backquotes start at position i of s.
FenceAt(s, i) ==
    /\ i >= 1 /\ i + 2 <= Len(s)
    /\ s[i] = Backtick /\ s[i + 1] = Backtick /\ s[i + 2] = Backtick

\* Lines 194-198.  Positions are 1-based here: with nl the position of the
\* first newline (0 if none) and p that of the last fence, Python's start_idx
\* is nl and end_idx is p - 1, and json_str[start_idx:end_idx] is nl+1..p-1.
StripCodeFence(json_str) ==
    IF ~FenceAt(json_str, 1) THEN json_str
    ELSE LET newlines == {i \in 1..Len(json_str) : json_str[i] = "\n"}
             nl == IF newlines = {} THEN 0 ELSE Min(newlines)
             p == Max({i \in 1..Len(json_str) : FenceAt(json_str, i)})
         IN  IF nl > 0 /\ p - 1 > nl
             THEN Strip(SubSeq(json_str, nl + 1, p - 1))
             ELSE json_str

\* Lines 201-209: the closers appended for the missing ones; braces are
\* appended before brackets.
AppendClosers(json_str) ==
    LET open_braces == Count(json_str, "{")
        close_braces == Count(json_str, "}")
        open_brackets == Count(json_str, "[")
        close_brackets == Count(json_str, "]")
        braces == IF open_braces > close_braces
                  THEN Repeat("}", open_braces - close_braces) ELSE <<>>
        brackets == IF open_brackets > close_brackets
                    THEN Repeat("]", open_brackets - close_brackets) ELSE <<>>
    IN  json_str \o braces \o brackets

\* \s* from position i: the position of the first lexeme that is not
\* whitespace, Len(s) + 1 when there is none.
SkipSpaces(s, i) ==
    LET rest == {k \in i..Len(s) : s[k] \notin Whitespace} IN
    IF rest = {} THEN Len(s) + 1 ELSE Min(rest)

\* The pattern "[^"]+"\s*:\s* tried at position i: the position that follows
\* the match, 0 when it does not match.  The closing quote can only be the
\* next quote after i, and each \s* takes every whitespace lexeme it meets
\* because what follows it in the patterns is never whitespace.
KeyColonAt(s, i) ==
    IF i > Len(s) \/ s[i] # "\"" THEN 0
    ELSE LET quotes == {j \in (i + 1)..Len(s) : s[j] = "\""} IN
         IF quotes = {} \/ Min(quotes) = i + 1 THEN 0
         ELSE LET colon == SkipSpaces(s, Min(quotes) + 1) IN
              IF colon > Len(s) \/ s[colon] # ":" THEN 0
              ELSE SkipSpaces(s, colon + 1)

\* Last position of the match of "[^"]+"\s*:\s*<follow> tried at i, 0 when it
\* does not match; follow is "$" (end of string), "," or "}".
IncompleteAt(s, i, follow) ==
    LET after == KeyColonAt(s, i) IN
    IF after = 0 THEN 0
    ELSE IF follow = "$" THEN (IF after = Len(s) + 1 THEN Len(s) ELSE 0)
    ELSE IF after <= Len(s) /\ s[after] = follow THEN after
    ELSE 0

EmptyProperty == <<"\"", "\"", ":", "\"", "\"">>

\* re.sub of one of the three patterns of lines 212-214 on s from position
\* pos on: leftmost match first, the search resuming after each match.
RECURSIVE SubIncomplete(_, _, _)
SubIncomplete(s, pos, follow) ==
    LET starts == {i \in pos..Len(s) : IncompleteAt(s, i, follow) # 0} IN
    IF starts = {} THEN SubSeq(s, pos, Len(s))
    ELSE LET i == Min(starts)
             e == IncompleteAt(s, i, follow)
         IN  SubSeq(s, pos, i - 1) \o EmptyProperty
             \o (IF follow = "$" THEN <<>> ELSE <<follow>>)
             \o SubIncomplete(s, e + 1, follow)

\* Last position of the match of ,\s*([}\]]) tried at i, 0 when none.
TrailingCommaAt(s, i) ==
    IF i > Len(s) \/ s[i] # "," THEN 0
    ELSE LET k == SkipSpaces(s, i + 1) IN
         IF k <= Len(s) /\ s[k] \in {"}", "]"} THEN k ELSE 0

\* Line 217: re.sub(r',\s*([}\]])', r'\1', json_str), from position pos on.
RECURSIVE RemoveTrailingCommas(_, _)
RemoveTrailingCommas(s, pos) ==
    LET starts == {i \in pos..Len(s) : TrailingCommaAt(s, i) # 0} IN
    IF starts = {} THEN SubSeq(s, pos, Len(s))
    ELSE LET i == Min(starts)
             e == TrailingCommaAt(s, i)
         IN  SubSeq(s, pos, i - 1) \o <<s[e]>> \o RemoveTrailingCommas(s, e + 1)

\* Lines 220-221: drop what follows the last closing brace.
TruncateAfterLastBrace(s) ==
    LET closers == {i \in 1..Len(s) : s[i] = "}"} IN
    IF closers = {} THEN s ELSE SubSeq(s, 1, Max(closers))

_fix_json_structure(json_str) ==
    LET unfenced == StripCodeFence(json_str)
        closed == AppendClosers(unfenced)
        sub1 == SubIncomplete(closed, 1, "$")
        sub2 == SubIncomplete(sub1, 1, ",")
        sub3 == SubIncomplete(sub2, 1, "}")
        sub4 == RemoveTrailingCommas(sub3, 1)
    IN  TruncateAfterLastBrace(sub4)

----------------------------------------------------------------------------
(* json.loads, on the lexemes of the planner texts: strings without        *)
(* backslash escapes, the literals null, true and false, and the integers  *)
(* of NumberWords.                                                         *)

NumberWords == {"0", "1", "7"}
NumberValue(w) == CASE w = "0" -> 0 [] w = "1" -> 1 [] w = "7" -> 7

ParseFail == [ok |-> FALSE, val |-> JNull, next |-> 0]
ParseOk(v, n) == [ok |-> TRUE, val |-> v, next |-> n]

\* A string starting at the quote s[i]: it ends at the next quote, and a
\* control character inside it is rejected (strict mode).
ParseString(s, i) ==
    LET quotes == {j \in (i + 1)..Len(s) : s[j] = "\""} IN
    IF quotes = {} THEN ParseFail
    ELSE LET j == Min(quotes) IN
         IF \E k \in (i + 1)..(j - 1) : s[k] \in {"\n", "\t"} THEN ParseFail
         ELSE ParseOk(SubSeq(s, i + 1, j - 1), j + 1)

RECURSIVE ParseValue(_, _), ParseMembers(_, _, _), ParseElements(_, _, _)

\* The value starting at position i (whitespace already skipped).
ParseValue(s, i) ==
    IF i > Len(s) THEN ParseFail
    ELSE CASE s[i] = "\"" ->
                LET r == ParseString(s, i) IN
                IF r.ok THEN ParseOk(JStr(r.val), r.next) ELSE ParseFail
           [] s[i] = "{" ->
                LET k == SkipSpaces(s, i + 1) IN
                IF k <= Len(s) /\ s[k] = "}" THEN ParseOk(JDict(EmptyDict), k + 1)
                ELSE ParseMembers(s, k, EmptyDict)
           [] s[i] = "[" ->
                LET k == SkipSpaces(s, i + 1) IN
                IF k <= Len(s) /\ s[k] = "]" THEN ParseOk(JList(<<>>), k + 1)
                ELSE ParseElements(s, k, <<>>)
           [] s[i] = "null" -> ParseOk(JNull, i + 1)
           [] s[i] = "true" -> ParseOk(JBool(TRUE), i + 1)
           [] s[i] = "false" -> ParseOk(JBool(FALSE), i + 1)
           [] s[i] \in NumberWords -> ParseOk(JNum(NumberValue(s[i])), i + 1)
           [] s[i] = "-" ->
                IF i + 1 <= Len(s) /\ s[i + 1] \in NumberWords
                THEN ParseOk(JNum(0 - NumberValue(s[i + 1])), i + 2)
                ELSE ParseFail
           [] OTHER -> ParseFail

\* The members of an object from the key expected at position i on; members
\* holds the pairs read so far, a repeated key keeping its last value.
ParseMembers(s, i, members) ==
    IF i > Len(s) \/ s[i] # "\"" THEN ParseFail
    ELSE LET key == ParseString(s, i) IN
         IF ~key.ok THEN ParseFail
         ELSE LET colon == SkipSpaces(s, key.next) IN
              IF colon > Len(s) \/ s[colon] # ":" THEN ParseFail
              ELSE LET v == ParseValue(s, SkipSpaces(s, colon + 1)) IN
                   IF ~v.ok THEN ParseFail
                   ELSE LET pairs == (key.val :> v.val) @@ members
                            e == SkipSpaces(s, v.next)
                        IN  IF e > Len(s) THEN ParseFail
                            ELSE IF s[e] = "}" THEN ParseOk(JDict(pairs), e + 1)
                            ELSE IF s[e] = ","
                                 THEN ParseMembers(s, SkipSpaces(s, e + 1), pairs)
                            ELSE ParseFail

\* The elements of an array from the value expected at position i on.
ParseElements(s, i, elements) ==
    LET v == ParseValue(s, i) IN
    IF ~v.ok THEN ParseFail
    ELSE LET values == Append(elements, v.val)
             e == SkipSpaces(s, v.next)
         IN  IF e > Len(s) THEN ParseFail
             ELSE IF s[e] = "]" THEN ParseOk(JList(values), e + 1)
             ELSE IF s[e] = "," THEN ParseElements(s, SkipSpaces(s, e + 1), values)
             ELSE ParseFail

\* json.loads(s): ok is FALSE when it raises JSONDecodeError (no value, or
\* extra data after the value).
JsonLoads(s) ==
    LET v == ParseValue(s, SkipSpaces(s, 1)) IN
    IF ~v.ok THEN [ok |-> FALSE, val |-> JNull]
    ELSE IF SkipSpaces(s, v.next) <= Len(s) THEN [ok |-> FALSE, val |-> JNull]
    ELSE [ok |-> TRUE, val |-> v.val]

----------------------------------------------------------------------------
(* Texts and structures the external model can return                      *)

\* The order in which the keys of a structure are written out.
KeyOrder == <<KeyIntroduction, KeyTitle, KeySections, KeySubsections,
              KeyDescription, KeyExercices, KeyConclusion>>

OrderedKeys(d) == SelectSeq(KeyOrder, LAMBDA k : k \in DOMAIN d)

RECURSIVE Concat(_)
Concat(ss) == IF ss = <<>> THEN <<>> ELSE Head(ss) \o Concat(Tail(ss))

\* The compact JSON text of a structure whose keys are among KeyOrder, as a
\* model writes it: {"k":v,"k":v}.
RECURSIVE CompactJson(_)
CompactJson(v) ==
    CASE v.kind = "null" -> <<"null">>
      [] v.kind = "bool" -> IF v.b THEN <<"true">> ELSE <<"false">>
      [] v.kind = "num" -> IF v.n < 0 THEN <<"-", ToString(0 - v.n)>>
                           ELSE <<ToString(v.n)>>
      [] v.kind = "str" -> <<"\"">> \o v.s \o <<"\"">>
      [] v.kind = "list" ->
            <<"[">>
            \o Concat([i \in 1..Len(v.l) |->
                        (IF i > 1 THEN <<",">> ELSE <<>>) \o CompactJson(v.l[i])])
            \o <<"]">>
      [] v.kind = "dict" ->
            LET keys == OrderedKeys(v.d) IN
            <<"{">>
            \o Concat([i \in 1..Len(keys) |->
                        (IF i > 1 THEN <<",">> ELSE <<>>)
                        \o <<"\"">> \o keys[i] \o <<"\"", ":">>
                        \o CompactJson(v.d[keys[i]])])
            \o <<"}">>

\* A plan of the required shape: shape[i] is the number of subsections of
\* section i.  Section i is titled Si and its subsection j Ti_j.
MakeSubsection(i, j) ==
    JDict(KeyTitle :> JStr(<<"T" \o ToString(i) \o "_" \o ToString(j)>>)
          @@ KeyDescription :> JStr(<<"D" \o ToString(i) \o "_" \o ToString(j)>>))

MakeSection(i, n) ==
    JDict(KeyTitle :> JStr(<<"S" \o ToString(i)>>)
          @@ KeySubsections :> JList([j \in 1..n |-> MakeSubsection(i, j)]))

MakePlan(shape) ==
    JDict(KeyIntroduction :> JStr(<<"I">>)
          @@ KeySections :> JList([i \in 1..Len(shape) |-> MakeSection(i, shape[i])])
          @@ KeyConclusion :> JStr(<<"C">>))

RECURSIVE Sum(_)
Sum(q) == IF q = <<>> THEN 0 ELSE Head(q) + Sum(Tail(q))

\* The shapes of the plans with at most n sections and subsections in all.
Shapes(n) == {q \in SeqsUpTo(0..n, n) : Len(q) + Sum(q) <= n}

\* Bound: sections plus subsections of the plans the planner's model returns.
MaxPlanNodes == 2

PlanShapes == Shapes(MaxPlanNodes)

\* d without key k
Without(d, k) == [x \in DOMAIN d \ {k} |-> d[x]]

----------------------------------------------------------------------------
(* ArticlePlanner.generate_plan                                            *)

NoPlan == [kind |-> "none"]
NoFile == [kind |-> "nofile"]
NoResponse == [kind |-> "pending"]

\* Outcomes of client.chat.completions.create: the call raises, the message
\* content is None, or it is a text.
RaisedResponse == [kind |-> "raise"]
NoneResponse == [kind |-> "none"]
TextResponse(t) == [kind |-> "text", text |-> t]

\* not response_content or response_content.isspace()
IsEmptyResponse(r) ==
    \/ r.kind = "none"
    \/ r.text = <<>>
    \/ \A i \in 1..Len(r.text) : r.text[i] \in Whitespace

\* The result of a block of generate_plan: the exception leaving it ("None"
\* when it returns), the plan returned, and the plan file left behind.
Returned(plan, file) == [exc |-> "None", plan |-> plan, file |-> file]
Raised(exc, file) == [exc |-> exc, plan |-> NoPlan, file |-> file]

\* Lines 151-155: the plan returned once the structure is written, given
\* the outcome valid of its validation.
ReturnUnvalidated(t, article_plan_, valid) ==
    Returned(article_plan_, article_plan_)

ReturnFallback(t, article_plan_, valid) ==
    Returned(_get_fallback_plan(t), article_plan_)

ReturnValidated(t, article_plan_, valid) ==
    IF valid = "TypeError" THEN Raised("TypeError", article_plan_)
    ELSE IF valid = "False" THEN Returned(_get_fallback_plan(t), article_plan_)
    ELSE Returned(article_plan_, article_plan_)

\* Lines 139-148 moved after line 153: the structure is written once it
\* has passed validation.
ValidateThenWrite(t, parsed, can_write, file) ==
    IF ~parsed.ok THEN Raised("JSONDecodeError", file)
    ELSE IF _validate_json_structure(parsed.val) = "TypeError"
    THEN Raised("TypeError", file)
    ELSE IF _validate_json_structure(parsed.val) = "False"
    THEN Returned(_get_fallback_plan(t), file)
    ELSE IF ~can_write THEN Raised("OSError", file)
    ELSE Returned(parsed.val, parsed.val)

\* Lines 138-155, given the outcome parsed of json.loads.  can_write tells
\* whether os.makedirs, open and json.dump succeed (an OSError otherwise).
\* The file holds the structure json.dump serialises; it is written before
\* the structure is validated.
WriteAndValidate(t, parsed, can_write, file) ==
    IF ~parsed.ok THEN Raised("JSONDecodeError", file)
    ELSE IF ~can_write THEN Raised("OSError", file)
    ELSE ReturnValidated(t, parsed.val, _validate_json_structure(parsed.val))

\* Lines 137-155, the body of the inner try.
PlanFromResponse(t, text, can_write, file) ==
    WriteAndValidate(t, JsonLoads(_fix_json_structure(text)), can_write, file)

\* Lines 157-160: the handler of json.JSONDecodeError.
ExceptJSONDecodeError(t, body) ==
    IF body.exc = "JSONDecodeError" THEN Returned(_get_fallback_plan(t), body.file)
    ELSE body

\* Lines 117-160, the body of the outer try.
OuterBody(t, r, can_write, file) ==
    IF r.kind = "raise" THEN Raised("APIError", file)
    ELSE IF IsEmptyResponse(r) THEN Returned(_get_fallback_plan(t), file)
    ELSE ExceptJSONDecodeError(t, PlanFromResponse(t, r.text, can_write, file))

\* Lines 162-164: the handler of Exception.
ExceptNothing(t, body) == body

ExceptException(t, body) ==
    IF body.exc # "None" THEN Returned(_get_fallback_plan(t), body.file)
    ELSE body

generate_plan(t, r, can_write, file) ==
    ExceptException(t, OuterBody(t, r, can_write, file))

\* Texts of the planner's model: every prefix of the text of a well-shaped
\* plan (a truncated response), that text inside a fence or followed by a
\* comment, plans that lack a part, values that are no mapping, blank text.
Prefixes(t) == {SubSeq(t, 1, k) : k \in 0..Len(t)}

Fence == <<Backtick, Backtick, Backtick>>

WellShapedPlans ==
    {MakePlan(shape) : shape \in PlanShapes}
    \cup {JDict(KeyExercices :> JList(<<>>) @@ MakePlan(<<1>>).d),
          JDict(KeyIntroduction :> JStr(<<>>) @@ KeySections :> JList(<<>>)
                @@ KeyConclusion :> JNull),
          JDict(KeySections
                   :> JList(<<JDict(KeySubsections
                                       :> JList(<<JDict(KeyTitle :> JNum(7)
                                                        @@ KeyDescription :> JNull)>>)
                                    @@ MakeSection(1, 0).d)>>)
                @@ MakePlan(<<>>).d)}

IllShapedPlans ==
    {JDict(Without(MakePlan(<<1>>).d, k)) : k \in required_keys}
    \cup {JDict(KeySections :> JStr(<<"S1">>) @@ MakePlan(<<>>).d),
          JDict(KeySections :> JList(<<JStr(<<"S1">>)>>) @@ MakePlan(<<>>).d),
          JDict(KeySections :> JList(<<JDict(Without(MakeSection(1, 1).d, KeyTitle))>>)
                @@ MakePlan(<<>>).d),
          JDict(KeySections
                    :> JList(<<JDict(KeySubsections
                                        :> JList(<<JDict(Without(MakeSubsection(1, 1).d,
                                                                 KeyDescription))>>)
                                     @@ MakeSection(1, 0).d)>>)
                @@ MakePlan(<<>>).d),
          JDict(EmptyDict)}

NonMappings ==
    {JNull, JBool(TRUE), JNum(7), JStr(<<"x">>), JList(<<>>),
     JStr(<<"introduction", " ", "sections", " ", "conclusion">>),
     JList(<<JStr(KeyIntroduction), JStr(KeySections), JStr(KeyConclusion)>>)}

PlanTexts ==
    UNION {Prefixes(CompactJson(v)) : v \in WellShapedPlans}
    \cup {CompactJson(v) : v \in IllShapedPlans \cup NonMappings}
    \cup {Fence \o <<"json", "\n">> \o CompactJson(v) \o <<"\n">> \o Fence :
            v \in WellShapedPlans}
    \cup {CompactJson(v) \o <<"\n", "Done", ".">> : v \in WellShapedPlans}
    \cup {<<" ">>, <<"\n", " ", "\t">>, <<"no", " ", "plan">>}

PlanResponses ==
    {RaisedResponse, NoneResponse} \cup {TextResponse(t) : t \in PlanTexts}

PlanTitles == {<<>>, <<"T">>, <<"A", " ", "\"", "B", "\"">>}


----------------------------------------------------------------------------
(* Specifications                                                          *)

Unused == [kind |-> "unused"]

\* One call of generate_plan for a title, under every outcome of the model
\* call and of the write of the plan file.
PlanInit ==
    /\ pc = "Planning"
    /\ title \in PlanTitles
    /\ write_ok \in BOOLEAN
    /\ response = NoResponse
    /\ planner_calls = 0
    /\ plan_file = NoFile
    /\ article_plan = NoPlan
    /\ ret = "None"
    /\ arg = Unused
    /\ article_content = Unused
    /\ used_examples = {}
    /\ node = 0
    /\ calls = <<>>

CallGeneratePlan ==
    /\ pc = "Planning"
    /\ \E r \in PlanResponses :
          LET result == generate_plan(title, r, write_ok, plan_file) IN
          /\ response' = r
          /\ ret' = result.exc
          /\ article_plan' = result.plan
          /\ plan_file' = result.file
    /\ planner_calls' = planner_calls + 1
    /\ pc' = "Planned"
    /\ UNCHANGED <<arg, title, write_ok, article_content, used_examples, node, calls>>

PlanNext == CallGeneratePlan

SpecPlan == PlanInit /\ [][PlanNext]_vars

\* Every value json.loads can hand to the validator, up to the bounds: the
\* parts of a plan present or absent, of the right type or not.
MaxSections == 1
MaxSubsections == 2

SomeText == JStr(<<"x">>)

SubsectionValues ==
    {JDict(KeyTitle :> SomeText @@ KeyDescription :> JStr(<<>>)),
     JDict(KeyTitle :> SomeText),
     JDict(KeyDescription :> SomeText),
     SomeText}

SubsectionsValues ==
    {JList(l) : l \in SeqsUpTo(SubsectionValues, MaxSubsections)} \cup {JNull}

SectionValues ==
    {JDict(KeyTitle :> SomeText @@ KeySubsections :> subs) :
        subs \in SubsectionsValues}
    \cup {JDict(KeySubsections :> subs) : subs \in SubsectionsValues}
    \cup {JDict(KeyTitle :> SomeText), JList(<<>>)}

SectionsValues ==
    {JList(l) : l \in SeqsUpTo(SectionValues, MaxSections)} \cup {SomeText}

\* The mappings: sections absent or one of the values above, each other key
\* absent or present, the conclusion being the empty text.
OtherKeys == {KeyIntroduction, KeyConclusion, KeyExercices}

OtherValue(k) == IF k = KeyConclusion THEN JStr(<<>>) ELSE SomeText

MappingValues ==
    {JDict([k \in keys |-> OtherValue(k)]) : keys \in SUBSET OtherKeys}
    \cup {JDict(KeySections :> secs @@ [k \in keys |-> OtherValue(k)]) :
            secs \in SectionsValues, keys \in SUBSET OtherKeys}

ParsedValues == MappingValues \cup NonMappings

ValidateInit ==
    /\ pc = "call"
    /\ arg \in ParsedValues
    /\ ret = "None"
    /\ title = <<>>
    /\ write_ok = TRUE
    /\ response = NoResponse
    /\ planner_calls = 0
    /\ plan_file = NoFile
    /\ article_plan = NoPlan
    /\ article_content = Unused
    /\ used_examples = {}
    /\ node = 0
    /\ calls = <<>>

CallValidate ==
    /\ pc = "call"
    /\ ret' = _validate_json_structure(arg)
    /\ pc' = "return"
    /\ UNCHANGED <<arg, title, response, write_ok, planner_calls, plan_file,
                   article_plan, article_content, used_examples, node, calls>>

ValidateNext == CallValidate

SpecValidate == ValidateInit /\ [][ValidateNext]_vars

\* The fallback plan of a title, handed to the validator.
MaxTitleLen == 3

TitleAlphabet == {"T", " ", "\"", "{"}

Titles == {t \in SeqsUpTo(TitleAlphabet, MaxTitleLen) : IsText(t)}

FallbackInit ==
    /\ pc = "call"
    /\ arg \in Titles
    /\ ret = "None"
    /\ title = <<>>
    /\ write_ok = TRUE
    /\ response = NoResponse
    /\ planner_calls = 0
    /\ plan_file = NoFile
    /\ article_plan = NoPlan
    /\ article_content = Unused
    /\ used_examples = {}
    /\ node = 0
    /\ calls = <<>>

CallFallback ==
    /\ pc = "call"
    /\ article_plan' = _get_fallback_plan(arg)
    /\ ret' = _validate_json_structure(_get_fallback_plan(arg))
    /\ pc' = "return"
    /\ UNCHANGED <<arg, title, response, write_ok, planner_calls, plan_file,
                   article_content, used_examples, node, calls>>

FallbackNext == CallFallback

SpecFallback == FallbackInit /\ [][FallbackNext]_vars

\* _fix_json_structure on every text over the alphabet, bare or in a fence.
MaxTextLen == 4

RepairAlphabet == {"{", "}", "[", "]", "\"", ":", ",", " ", "k"}

RepairTexts ==
    LET bare == {t \in SeqsUpTo(RepairAlphabet, MaxTextLen) : IsText(t)} IN
    bare \cup {Fence \o <<"\n">> \o t \o Fence :
                 t \in {b \in bare : Len(b) < MaxTextLen}}

FixInit ==
    /\ pc = "call"
    /\ arg \in RepairTexts
    /\ ret = <<>>
    /\ title = <<>>
    /\ write_ok = TRUE
    /\ response = NoResponse
    /\ planner_calls = 0
    /\ plan_file = NoFile
    /\ article_plan = NoPlan
    /\ article_content = Unused
    /\ used_examples = {}
    /\ node = 0
    /\ calls = <<>>

CallFix ==
    /\ pc = "call"
    /\ ret' = _fix_json_structure(arg)
    /\ pc' = "return"
    /\ UNCHANGED <<arg, title, response, write_ok, planner_calls, plan_file,
                   article_plan, article_content, used_examples, node, calls>>

FixNext == CallFix

SpecFix == FixInit /\ [][FixNext]_vars

----------------------------------------------------------------------------
(* ArticleWriter.generate_section_content: the cleaning of the response    *)

\* The words of the texts drawn for the two content models are whole
\* lexemes: html and python after a fence, class before a class name, code
\* after an angle bracket, and the words below for the thinking-process
\* pattern.  No other word of those texts contains one of them.

\* Line 245, (?:html|python)?: the position where the body of the block
\* opened by the fence at i starts.
BlockStart(s, i) ==
    IF i + 3 <= Len(s) /\ s[i + 3] \in {"html", "python"} THEN i + 4 ELSE i + 3

\* Line 245, ([\s\S]*?) and the closing fence: the position of the first
\* fence at or after the start of the body, 0 when there is none.
ClosingFence(s, i) ==
    LET later == {e \in BlockStart(s, i)..Len(s) : FenceAt(s, e)} IN
    IF later = {} THEN 0 ELSE Min(later)

\* Line 245: re.sub keeps the body of every fenced block, leftmost block
\* first, the search resuming after the closing fence.
RECURSIVE StripFences(_, _)
StripFences(s, pos) ==
    LET starts == {i \in pos..Len(s) : FenceAt(s, i) /\ ClosingFence(s, i) # 0} IN
    IF starts = {} THEN SubSeq(s, pos, Len(s))
    ELSE LET i == Min(starts)
             e == ClosingFence(s, i)
         IN  Cat(Cat(SubSeq(s, pos, i - 1), SubSeq(s, BlockStart(s, i), e - 1)),
                 StripFences(s, e + 3))

\* Line 248: str.split on the newline.
RECURSIVE SplitLines(_)
SplitLines(s) ==
    LET newlines == {i \in 1..Len(s) : s[i] = "\n"} IN
    IF newlines = {} THEN <<s>>
    ELSE <<SubSeq(s, 1, Min(newlines) - 1)>>
         \o SplitLines(SubSeq(s, Min(newlines) + 1, Len(s)))

\* Line 265: the lines joined by newlines.
RECURSIVE JoinLines(_)
JoinLines(lines) ==
    IF lines = <<>> THEN <<>>
    ELSE IF Len(lines) = 1 THEN lines[1]
    ELSE lines[1] \o <<"\n">> \o JoinLines(Tail(lines))

\* Line 254: the words that match the case-insensitive pattern
\* thinking|process|plan|strategy|checklist|steps|analysis, which is
\* searched anywhere in a word.
MetaWords ==
    {"thinking", "process", "plan", "strategy", "checklist", "steps",
     "analysis", "Plan", "Steps", "Explanation"}

\* Line 254: re.search of the pattern in a line; the last alternative is
\* the two words "confidence score".
IsMetaLine(line) ==
    \/ \E i \in 1..Len(line) : line[i] \in MetaWords
    \/ \E i \in 1..(Len(line) - 2) :
          /\ line[i] \in {"confidence", "Confidence"}
          /\ line[i + 1] = " "
          /\ line[i + 2] \in {"score", "Score"}

\* Line 259: re.search of <\w+[^>]*> in a line.
HasTag(line) ==
    \E i \in 1..(Len(line) - 2) :
        /\ line[i] = "<"
        /\ IsWord(line[i + 1])
        /\ \E k \in (i + 2)..Len(line) : line[k] = ">"

\* Lines 258-260 left out: once a line is skipped, no later line is kept.
RECURSIVE FilterLinesNeverResume(_, _, _)
FilterLinesNeverResume(lines, k, skip_section) ==
    IF k > Len(lines) THEN <<>>
    ELSE IF IsMetaLine(lines[k]) \/ skip_section
    THEN FilterLinesNeverResume(lines, k + 1, TRUE)
    ELSE <<lines[k]>> \o FilterLinesNeverResume(lines, k + 1, FALSE)

\* Lines 249-263: the loop over the lines from line k on.
RECURSIVE FilterLines(_, _, _)
FilterLines(lines, k, skip_section) ==
    IF k > Len(lines) THEN <<>>
    ELSE IF IsMetaLine(lines[k]) THEN FilterLines(lines, k + 1, TRUE)
    ELSE IF skip_section /\ ~HasTag(lines[k]) THEN FilterLines(lines, k + 1, TRUE)
    ELSE <<lines[k]>> \o FilterLines(lines, k + 1, FALSE)

\* Lines 245-265.
FilterResponse(response_content) ==
    JoinLines(FilterLines(SplitLines(StripFences(response_content, 1)), 1, FALSE))

----------------------------------------------------------------------------
(* ArticleWriter._extract_and_track_examples                               *)

\* class\s+([A-Za-z0-9_]+) tried at i: the position of the class name, 0
\* when the pattern does not match.
ClassAt(s, i) ==
    IF s[i] # "class" \/ i + 1 > Len(s) \/ s[i + 1] \notin Whitespace THEN 0
    ELSE LET k == SkipSpaces(s, i + 1) IN
         IF k <= Len(s) /\ IsWord(s[k]) THEN k ELSE 0

\* re.findall of the class pattern from position pos on.
RECURSIVE FindClasses(_, _)
FindClasses(s, pos) ==
    LET starts == {i \in pos..Len(s) : ClassAt(s, i) # 0} IN
    IF starts = {} THEN {}
    ELSE {s[ClassAt(s, Min(starts))]}
         \cup FindClasses(s, ClassAt(s, Min(starts)) + 1)

\* ([A-Za-z0-9_]+)\s*=\s*[A-Za-z0-9_]+\( tried at i: the position of the
\* parenthesis, 0 when the pattern does not match.
ExampleAt(s, i) ==
    IF ~IsWord(s[i]) THEN 0
    ELSE LET eq == SkipSpaces(s, i + 1) IN
         IF eq > Len(s) \/ s[eq] # "=" THEN 0
         ELSE LET k == SkipSpaces(s, eq + 1) IN
              IF k + 1 <= Len(s) /\ IsWord(s[k]) /\ s[k + 1] = "(" THEN k + 1
              ELSE 0

\* re.findall of the example pattern from position pos on.
RECURSIVE FindExamples(_, _)
FindExamples(s, pos) ==
    LET starts == {i \in pos..Len(s) : ExampleAt(s, i) # 0} IN
    IF starts = {} THEN {}
    ELSE {s[Min(starts)]} \cup FindExamples(s, ExampleAt(s, Min(starts)) + 1)

\* Lines 305-310: the descriptors added to the set.
_extract_and_track_examples(content) ==
    {<<"Classe", " ", cls>> : cls \in FindClasses(content, 1)}
    \cup {<<"Exemple", " ", "avec", " ", example>> :
            example \in {x \in FindExamples(content, 1) : Len(x) > 3}}

----------------------------------------------------------------------------
(* ArticleValidator.clean_validated_content and validate_content           *)

\* The lexeme at position k, the empty string outside the text.
At(s, k) == IF k \in 1..Len(s) THEN s[k] ELSE ""

\* str.lower() of the name of a language.
Lower(language) ==
    CASE language = "Python" -> "python"
      [] language = "Go" -> "go"
      [] OTHER -> language

\* Line 255, the lookahead \s+class\s*=\s*"language-<language>" tried at i.
HasLanguageClass(s, i, language) ==
    /\ At(s, i) \in Whitespace
    /\ LET c == SkipSpaces(s, i)
           e == SkipSpaces(s, c + 1)
           q == SkipSpaces(s, e + 1)
       IN  /\ At(s, c) = "class"
           /\ At(s, e) = "="
           /\ At(s, q) = "\""
           /\ At(s, q + 1) = "language"
           /\ At(s, q + 2) = "-"
           /\ At(s, q + 3) = Lower(language)
           /\ At(s, q + 4) = "\""

\* Line 256: what is put after <code.
ClassAttribute(language) ==
    <<" ", "class", "=", "\"", "language", "-", Lower(language), "\"">>

\* Lines 254-258: re.sub on every <code that the lookahead does not
\* exclude, from position pos on.
RECURSIVE AddLanguageClass(_, _, _)
AddLanguageClass(s, pos, language) ==
    LET starts == {i \in pos..(Len(s) - 1) :
                      /\ s[i] = "<"
                      /\ s[i + 1] = "code"
                      /\ ~HasLanguageClass(s, i + 2, language)} IN
    IF starts = {} THEN SubSeq(s, pos, Len(s))
    ELSE SubSeq(s, pos, Min(starts) + 1) \o ClassAttribute(language)
         \o AddLanguageClass(s, Min(starts) + 2, language)

\* Lines 261-262: re.sub removes every fence with the tag that follows it,
\* when it is one of tags, and the whitespace after it.
RECURSIVE RemoveFences(_, _, _)
RemoveFences(s, pos, tags) ==
    LET starts == {i \in pos..Len(s) : FenceAt(s, i)} IN
    IF starts = {} THEN SubSeq(s, pos, Len(s))
    ELSE LET i == Min(starts)
             after == IF At(s, i + 3) \in tags THEN i + 4 ELSE i + 3
         IN  Cat(SubSeq(s, pos, i - 1),
                 RemoveFences(s, SkipSpaces(s, after), tags))

\* Line 265, the pattern tried at i: the position of the closing backquote,
\* 0 when the pattern does not match.
InlineCodeEnd(s, i) ==
    IF s[i] # Backtick THEN 0
    ELSE LET later == {k \in (i + 1)..Len(s) : s[k] = Backtick} IN
         IF later = {} \/ Min(later) = i + 1 THEN 0 ELSE Min(later)

\* Line 265: re.sub from position pos on.
RECURSIVE StrongInlineCode(_, _)
StrongInlineCode(s, pos) ==
    LET starts == {i \in pos..Len(s) : InlineCodeEnd(s, i) # 0} IN
    IF starts = {} THEN SubSeq(s, pos, Len(s))
    ELSE LET i == Min(starts)
             e == InlineCodeEnd(s, i)
         IN  SubSeq(s, pos, i - 1) \o <<"<", "strong", ">">>
             \o SubSeq(s, i + 1, e - 1) \o <<"<", "/", "strong", ">">>
             \o StrongInlineCode(s, e + 1)

clean_validated_content(content, language) ==
    StrongInlineCode(
        RemoveFences(
            RemoveFences(AddLanguageClass(content, 1, language), 1, {"html"}),
            1, {}),
        1)

\* The result of a block that yields a text: the exception leaving it
\* ("None" when it returns) and the text returned.
ReturnedText(content) == [exc |-> "None", content |-> content]
RaisedText(exc) == [exc |-> exc, content |-> <<>>]

\* Lines 218-234, the body of the try, given the outcome v of the
\* validator's model call: the call raises, or its message content is None
\* and re.sub raises TypeError, or its text is cleaned and returned.
ValidateBody(v, language) ==
    IF v.kind = "raise" THEN RaisedText("APIError")
    ELSE IF v.kind = "none" THEN RaisedText("TypeError")
    ELSE ReturnedText(clean_validated_content(v.text, language))

\* Lines 236-241 left out: the exception leaves validate_content.
ExceptNothingValidation(content, body) == body

\* Lines 236-241: the handler of Exception returns the content handed in.
ExceptExceptionValidation(content, body) ==
    IF body.exc # "None" THEN ReturnedText(content) ELSE body

validate_content(content, v, language) ==
    ExceptExceptionValidation(content, ValidateBody(v, language))

----------------------------------------------------------------------------
(* ArticleWriter.generate_section_content                                  *)

\* str() of a value inside an f-string.  The titles of the plans drawn are
\* texts, numbers or null.
PyStr(v) ==
    CASE v.kind = "str" -> v.s
      [] v.kind = "num" -> <<ToString(v.n)>>
      [] v.kind = "null" -> <<"None">>
      [] v.kind = "bool" -> IF v.b THEN <<"True">> ELSE <<"False">>

\* Line 284: the text returned by the handler of Exception.
PlaceholderText(section_title) ==
    Cat(Cat(<<"Content", " ", "for", " ">>, PyStr(section_title)),
        <<" ", "could", " ", "not", " ", "be", " ", "generated", " ", "due",
          " ", "to", " ", "an", " ", "error", ".">>)

\* The validator's model is not called when the writer's call fails.
NotCalled == [kind |-> "not called"]

\* What a call of generate_section_content leaves: the exception leaving
\* it ("None" when it returns), the text returned and the set
\* _used_examples.
Generated(content, examples) ==
    [exc |-> "None", content |-> content, used_examples |-> examples]
RaisedAndCleared(exc, examples) ==
    [exc |-> exc, content |-> <<>>, used_examples |-> {}]
RaisedInSection(exc, examples) ==
    [exc |-> exc, content |-> <<>>, used_examples |-> examples]

\* Line 279, given the outcome of validate_content.
ReturnValidatedContent(validated, examples) ==
    IF validated.exc # "None" THEN RaisedInSection(validated.exc, examples)
    ELSE Generated(validated.content, examples)

\* Line 268 left out: the content is validated, no example is recorded.
ValidateWithoutTracking(response_content, examples, v) ==
    ReturnValidatedContent(validate_content(response_content, v, "Python"),
                           examples)

\* Lines 268-279, given the filtered content.  validate_content is called
\* without a language, so with its default.
TrackAndValidate(response_content, examples, v) ==
    ReturnValidatedContent(
        validate_content(response_content, v, "Python"),
        examples \cup _extract_and_track_examples(response_content))

\* Lines 229-279, the body of the try, given the outcome w of the writer's
\* model call and v of the validator's: the call raises, or its message
\* content is None and re.sub raises TypeError at line 245, or its text is
\* filtered, tracked and validated.
SectionBody(examples, w, v) ==
    IF w.kind = "raise" THEN RaisedInSection("APIError", examples)
    ELSE IF w.kind = "none" THEN RaisedInSection("TypeError", examples)
    ELSE TrackAndValidate(FilterResponse(w.text), examples, v)

\* Lines 281-284 left out: the exception leaves the method.
ExceptNothingSection(section_title, body) == body

\* Lines 281-284: the handler of Exception returns the placeholder.
ExceptExceptionSection(section_title, body) ==
    IF body.exc # "None"
    THEN Generated(PlaceholderText(section_title), body.used_examples)
    ELSE body

generate_section_content(section_title, examples, w, v) ==
    ExceptExceptionSection(section_title, SectionBody(examples, w, v))

----------------------------------------------------------------------------
(* ArticleWriter.generate_article_content                                  *)

KeyContent == <<"content">>

Sections(plan) == plan.d[KeySections].l

Subsections(section) == section.d[KeySubsections].l

\* Lines 334-339.
EmptyArticle(t) ==
    JDict(KeyTitle :> JStr(t) @@ KeyIntroduction :> JStr(<<>>)
          @@ KeySections :> JList(<<>>) @@ KeyConclusion :> JStr(<<>>))

\* Lines 350-354 and 357.
SectionContent(section, content) ==
    JDict(KeyTitle :> section.d[KeyTitle] @@ KeyContent :> JStr(content)
          @@ KeySubsections :> JList(<<>>))

\* Lines 368-375.
SubsectionContent(subsection, content) ==
    JDict(KeyTitle :> subsection.d[KeyTitle] @@ KeyContent :> JStr(content))

\* Line 376 left out.
KeepSubsections(section_content, subsection_content) == section_content

\* Line 376.
AppendSubsection(section_content, subsection_content) ==
    JDict([section_content.d EXCEPT
              ![KeySubsections] = JList(Append(@.l, subsection_content))])

\* Line 381.
AppendSection(article, section_content) ==
    JDict([article.d EXCEPT ![KeySections] = JList(Append(@.l, section_content))])

\* Line 359.
MainDescription(section) ==
    JStr(Cat(<<"Main", " ", "content", " ", "for", " ", "section", ":", " ">>,
             PyStr(section.d[KeyTitle])))

\* Line 372.
SubsectionTitle(section, subsection) ==
    JStr(Cat(Cat(PyStr(section.d[KeyTitle]), <<" ", "-", " ">>),
             PyStr(subsection.d[KeyTitle])))

\* Lines 366-367: dict.get with a default.
SubsectionDescription(subsection) ==
    IF KeyDescription \in DOMAIN subsection.d THEN subsection.d[KeyDescription]
    ELSE JStr(Cat(<<"Content", " ", "for", " ">>, PyStr(subsection.d[KeyTitle])))

\* Where control is: the statement and the indices of the two loops.
At_(p, i, j) == [pc |-> p, node |-> <<i, j>>]

\* Line 348 taken as if section i were the last.
AfterLastSection(sections, i) == At_("Conclusion", 0, 0)

\* Line 348: the next iteration of the loop over the sections, or what
\* follows the loop.
AfterSection(sections, i) ==
    IF i < Len(sections) THEN At_("Section", i + 1, 0)
    ELSE At_("Conclusion", 0, 0)

\* Line 363: the next iteration of the loop over the subsections of
\* section i, or what follows the loop.
AfterSubsection(sections, i, j) ==
    IF j < Len(Subsections(sections[i])) THEN At_("Subsection", i, j + 1)
    ELSE AfterSection(sections, i)

\* Bound: sections plus subsections of the plans handed to the writer.
MaxWriteNodes == 3

\* A plan that passes validation with a null introduction, an empty
\* conclusion, an exercices key and titles that are not texts.
OddPlan ==
    JDict(KeyExercices :> JList(<<>>)
          @@ KeyIntroduction :> JNull
          @@ KeySections
                :> JList(<<JDict(KeyTitle :> JNum(7)
                                 @@ KeySubsections
                                       :> JList(<<JDict(KeyTitle :> JNull
                                                        @@ KeyDescription :> JNum(1))>>))>>)
          @@ KeyConclusion :> JStr(<<>>))

\* The plans generate_plan can return for title t: plans of the model that
\* pass validation, and the fallback plan.
WritePlans(t) ==
    {p \in {MakePlan(shape) : shape \in Shapes(MaxWriteNodes)} \cup {OddPlan} :
        _validate_json_structure(p) = "True"}
    \cup {_get_fallback_plan(t)}

WriteTitles == {<<"T">>}

\* Text of the writer's model: a fenced block that opens with a planning
\* line and holds a class and an assignment.
WriteTexts ==
    {Fence \o <<"html", "\n", "Plan", ":", " ", "x", "\n", "notes", "\n",
                "<", "p", ">", "class", " ", "Foo", "<", "/", "p", ">", "\n",
                "item", " ", "=", " ", "Foo", "(", ")", "\n">> \o Fence}

\* Text of the validator's model: a fenced block with a code tag and an
\* inline code span.
ValidationTexts ==
    {Fence \o <<"html", "\n", "<", "code", ">", "x", "<", "/", "code", ">",
                " ", Backtick, "y", Backtick, "\n">> \o Fence}

WriteResponses ==
    {RaisedResponse, NoneResponse} \cup {TextResponse(t) : t \in WriteTexts}

\* The outcomes of the validator's model call that can follow outcome w of
\* the writer's.
ValidationResponses(w) ==
    IF w.kind # "text" THEN {NotCalled}
    ELSE {RaisedResponse, NoneResponse}
         \cup {TextResponse(t) : t \in ValidationTexts}

\* The writer after construction (line 54): no article in hand.
WriteInit ==
    /\ pc = "Idle"
    /\ used_examples = {}
    /\ title = <<>>
    /\ article_plan = NoPlan
    /\ article_content = Unused
    /\ arg = Unused
    /\ ret = <<>>
    /\ response = NoResponse
    /\ node = <<0, 0>>
    /\ calls = <<>>
    /\ write_ok = TRUE
    /\ planner_calls = 0
    /\ plan_file = NoFile

\* Line 331 left out: the set is kept.
KeepExamples(examples) == examples

\* Line 331: self._used_examples = set().
ResetExamples(examples) == {}

\* Lines 331-339: generate_article_content is called on the new writer.
StartArticle ==
    /\ pc = "Idle"
    /\ \E t \in WriteTitles :
          /\ title' = t
          /\ article_plan' \in WritePlans(t)
          /\ article_content' = EmptyArticle(t)
    /\ used_examples' = ResetExamples(used_examples)
    /\ arg' = Unused
    /\ ret' = <<>>
    /\ response' = NoResponse
    /\ node' = <<0, 0>>
    /\ calls' = <<>>
    /\ pc' = "Introduction"
    /\ UNCHANGED <<write_ok, planner_calls, plan_file>>

\* One call of generate_section_content: the prompt is built from the set
\* of examples as it stands (line 226), then the body runs under outcomes
\* w and v of the two model calls.
CallSection(section_title, section_description, w, v, result) ==
    /\ calls' = Append(calls, [section_title |-> section_title,
                               section_description |-> section_description,
                               hint |-> used_examples])
    /\ response' = [write |-> w, validation |-> v, exc |-> result.exc]
    /\ used_examples' = result.used_examples
    /\ ret' = result.content

\* Where control goes next.
Goto(next) ==
    /\ pc' = next.pc
    /\ node' = next.node

\* An exception that leaves generate_section_content leaves
\* generate_article_content too.
Propagate ==
    /\ pc' = "Raised"
    /\ UNCHANGED <<arg, node, article_content>>

\* Lines 343-345.
GenerateIntroduction ==
    /\ pc = "Introduction"
    /\ \E w \in WriteResponses : \E v \in ValidationResponses(w) :
          CallSection(JStr(KeyIntroduction), article_plan.d[KeyIntroduction], w, v,
                      generate_section_content(JStr(KeyIntroduction),
                                               used_examples, w, v))
    /\ IF response'.exc # "None" THEN Propagate
       ELSE /\ article_content' =
                  JDict([article_content.d EXCEPT ![KeyIntroduction] = JStr(ret')])
            /\ Goto(AfterSection(Sections(article_plan), 0))
            /\ arg' = arg
    /\ UNCHANGED <<title, article_plan, write_ok, planner_calls, plan_file>>

\* Lines 349-360, and line 381 when the section has no subsection.
GenerateSection ==
    /\ pc = "Section"
    /\ LET i == node[1]
           section == Sections(article_plan)[i]
       IN  /\ \E w \in WriteResponses : \E v \in ValidationResponses(w) :
                 CallSection(section.d[KeyTitle], MainDescription(section), w, v,
                             generate_section_content(section.d[KeyTitle],
                                                      used_examples, w, v))
           /\ IF response'.exc # "None" THEN Propagate
              ELSE IF Subsections(section) # <<>>
              THEN /\ arg' = SectionContent(section, ret')
                   /\ article_content' = article_content
                   /\ Goto(At_("Subsection", i, 1))
              ELSE /\ arg' = Unused
                   /\ article_content' =
                         AppendSection(article_content, SectionContent(section, ret'))
                   /\ Goto(AfterSection(Sections(article_plan), i))
    /\ UNCHANGED <<title, article_plan, write_ok, planner_calls, plan_file>>

\* Lines 364-379, and line 381 after the last subsection.
GenerateSubsection ==
    /\ pc = "Subsection"
    /\ LET i == node[1]
           j == node[2]
           section == Sections(article_plan)[i]
           subsection == Subsections(section)[j]
       IN  /\ \E w \in WriteResponses : \E v \in ValidationResponses(w) :
                 CallSection(SubsectionTitle(section, subsection),
                             SubsectionDescription(subsection), w, v,
                             generate_section_content(
                                 SubsectionTitle(section, subsection),
                                 used_examples, w, v))
           /\ IF response'.exc # "None" THEN Propagate
              ELSE /\ IF j < Len(Subsections(section))
                      THEN /\ arg' = AppendSubsection(
                                        arg, SubsectionContent(subsection, ret'))
                           /\ article_content' = article_content
                      ELSE /\ arg' = Unused
                           /\ article_content' =
                                 AppendSection(article_content,
                                     AppendSubsection(
                                         arg, SubsectionContent(subsection, ret')))
                   /\ Goto(AfterSubsection(Sections(article_plan), i, j))
    /\ UNCHANGED <<title, article_plan, write_ok, planner_calls, plan_file>>

\* Lines 385-389.
GenerateConclusion ==
    /\ pc = "Conclusion"
    /\ \E w \in WriteResponses : \E v \in ValidationResponses(w) :
          CallSection(JStr(KeyConclusion), article_plan.d[KeyConclusion], w, v,
                      generate_section_content(JStr(KeyConclusion),
                                               used_examples, w, v))
    /\ IF response'.exc # "None" THEN Propagate
       ELSE /\ article_content' =
                  JDict([article_content.d EXCEPT ![KeyConclusion] = JStr(ret')])
            /\ pc' = "Done"
            /\ UNCHANGED <<arg, node>>
    /\ UNCHANGED <<title, article_plan, write_ok, planner_calls,
                   plan_file>>

WriteNext ==
    \/ StartArticle
    \/ GenerateIntroduction
    \/ GenerateSection
    \/ GenerateSubsection
    \/ GenerateConclusion

SpecWrite == WriteInit /\ [][WriteNext]_vars

\* Every model call returns or raises, so a started call ends.
SpecWriteLive == SpecWrite /\ WF_vars(WriteNext)

----------------------------------------------------------------------------
(* Properties of plan acquisition (SpecPlan)                               *)

\* What json.loads makes of the repaired text of the response.
ParsedResponse == JsonLoads(_fix_json_structure(response.text))

\* The response is a non-blank text whose repaired form parses to a
\* structure that passes validation.
ValidTextResponse ==
    /\ response.kind = "text"
    /\ ~IsEmptyResponse(response)
    /\ ParsedResponse.ok
    /\ _validate_json_structure(ParsedResponse.val) = "True"

\* The response is blank, or its repaired form does not parse, or the
\* parsed structure does not pass validation.
FailedResponse ==
    /\ response.kind \in {"none", "text"}
    /\ \/ IsEmptyResponse(response)
       \/ ~ParsedResponse.ok
       \/ _validate_json_structure(ParsedResponse.val) # "True"

C2_ValidPlanReturned ==
    pc = "Planned" /\ ValidTextResponse => article_plan = ParsedResponse.val

\* C2 amended: a response that repairs and parses to a valid structure is
\* returned as parsed, provided the plan file could be written.
C2_ValidPlanReturnedWhenWritten ==
    pc = "Planned" /\ ValidTextResponse /\ write_ok =>
        /\ ret = "None"
        /\ article_plan = ParsedResponse.val

\* A truncated two-section plan was repaired, written and returned.
C2_Witness ==
    /\ pc = "Planned"
    /\ ValidTextResponse
    /\ write_ok
    /\ response.text # _fix_json_structure(response.text)
    /\ Len(article_plan.d[KeySections].l) = 2
    /\ article_plan # _get_fallback_plan(title)

\* C3: a blank response, an unparseable one or an ill-shaped structure
\* yields the fallback plan of the title (its introduction is
\* "Introduction to <title>", it has one section), after one model call.
C3_FallbackOnFailure ==
    pc = "Planned" /\ FailedResponse =>
        /\ article_plan = _get_fallback_plan(title)
        /\ article_plan.d[KeyIntroduction]
              = JStr(Cat(<<"Introduction", " ", "to", " ">>, title))
        /\ Len(article_plan.d[KeySections].l) = 1
        /\ planner_calls = 1

\* A written structure that lacks its conclusion gave the fallback plan.
C3_Witness ==
    /\ pc = "Planned"
    /\ write_ok
    /\ response.kind = "text"
    /\ ParsedResponse.ok
    /\ _validate_json_structure(ParsedResponse.val) = "False"
    /\ plan_file = ParsedResponse.val
    /\ article_plan = _get_fallback_plan(title)

----------------------------------------------------------------------------
(* Properties of the fallback plan (SpecFallback), of the validator        *)
(* (SpecValidate) and of the repair (SpecFix)                              *)

\* C7: the fallback plan of every title, the empty one included, passes
\* _validate_json_structure.
C7_FallbackPassesValidation ==
    pc = "return" => ret = "True"

C7_Witness ==
    /\ pc = "return"
    /\ arg = <<>>
    /\ article_plan.d[KeyIntroduction] = JStr(<<"Introduction", " ", "to", " ">>)
    /\ ret = "True"

\* The shape a plan must have, stated on the structure.
WellShaped(data) ==
    /\ {KeyIntroduction, KeySections, KeyConclusion} \subseteq DOMAIN data.d
    /\ data.d[KeySections].kind = "list"
    /\ \A i \in DOMAIN data.d[KeySections].l :
          LET section == data.d[KeySections].l[i] IN
          /\ section.kind = "dict"
          /\ {KeyTitle, KeySubsections} \subseteq DOMAIN section.d
          /\ section.d[KeySubsections].kind = "list"
          /\ \A j \in DOMAIN section.d[KeySubsections].l :
                LET subsection == section.d[KeySubsections].l[j] IN
                /\ subsection.kind = "dict"
                /\ {KeyTitle, KeyDescription} \subseteq DOMAIN subsection.d

\* C8: on a mapping the validator returns True exactly when introduction,
\* sections and conclusion are present, sections is a list of mappings with
\* a title and a subsections list, and every subsection is a mapping with a
\* title and a description; empty values and an exercices key change
\* nothing.
C8_ValidatorDecidesShape ==
    pc = "return" /\ arg.kind = "dict" =>
        ret = IF WellShaped(arg) THEN "True" ELSE "False"

\* A plan with an exercices key, an empty conclusion and a subsection with
\* an empty description passed.
C8_Witness ==
    /\ pc = "return"
    /\ arg.kind = "dict"
    /\ ret = "True"
    /\ KeyExercices \in DOMAIN arg.d
    /\ arg.d[KeyConclusion] = JStr(<<>>)
    /\ Len(arg.d[KeySections].l) >= 1
    /\ Len(arg.d[KeySections].l[1].d[KeySubsections].l) >= 1

\* C9 as stated: the validator returns True or False, and never raises, on
\* every value json.loads can produce.
C9_ValidatorNeverRaises ==
    pc = "return" => ret \in {"True", "False"}

\* Whether a text has as many closing braces as opening ones and as many
\* closing brackets as opening ones.
Balanced(s) ==
    /\ Count(s, "{") = Count(s, "}")
    /\ Count(s, "[") = Count(s, "]")

\* C10 as stated: the repair of a text with unbalanced braces or brackets
\* has balanced braces and balanced brackets.
C10_RepairBalances ==
    pc = "return" /\ ~Balanced(arg) => Balanced(ret)

----------------------------------------------------------------------------
(* Properties of the writer (SpecWrite, SpecWriteLive)                     *)

\* The document has a title, an introduction and a conclusion, and its
\* sections and their subsections are those of the plan, in the same order
\* and with the same titles.
StructurallyComplete(doc, plan) ==
    /\ doc.kind = "dict"
    /\ {KeyTitle, KeyIntroduction, KeySections, KeyConclusion} \subseteq DOMAIN doc.d
    /\ doc.d[KeyIntroduction].kind = "str"
    /\ doc.d[KeyConclusion].kind = "str"
    /\ doc.d[KeySections].kind = "list"
    /\ Len(doc.d[KeySections].l) = Len(plan.d[KeySections].l)
    /\ \A i \in DOMAIN plan.d[KeySections].l :
          LET planned == plan.d[KeySections].l[i]
              written == doc.d[KeySections].l[i]
          IN  /\ written.d[KeyTitle] = planned.d[KeyTitle]
              /\ written.d[<<"content">>].kind = "str"
              /\ written.d[KeySubsections].kind = "list"
              /\ Len(written.d[KeySubsections].l) = Len(planned.d[KeySubsections].l)
              /\ \A j \in DOMAIN planned.d[KeySubsections].l :
                    /\ written.d[KeySubsections].l[j].d[KeyTitle]
                          = planned.d[KeySubsections].l[j].d[KeyTitle]
                    /\ written.d[KeySubsections].l[j].d[<<"content">>].kind = "str"

\* C4: for every plan that passes validation and every outcome of each
\* writer and validator model call, generate_article_content lets no
\* exception out, ends, and the document it returns is structurally
\* complete with respect to the plan.
C4_DocumentStructurallyComplete ==
    /\ [](pc # "Raised")
    /\ [](pc = "Done" => StructurallyComplete(article_content, article_plan))
    /\ (pc = "Introduction" ~> pc = "Done")

\* A run on a plan of one section with two subsections ended although the
\* last writer call raised.
C4_Witness ==
    /\ pc = "Done"
    /\ Len(article_plan.d[KeySections].l) = 1
    /\ Len(article_content.d[KeySections].l[1].d[KeySubsections].l) = 2
    /\ response.write = RaisedResponse
    /\ StructurallyComplete(article_content, article_plan)

\* The section titles of the calls a plan requires, in order: introduction,
\* each section followed by its subsections, conclusion.
RECURSIVE ExpectedTitles(_, _)
ExpectedTitles(sections, i) ==
    IF i > Len(sections) THEN <<JStr(<<"conclusion">>)>>
    ELSE LET section == sections[i]
             subsections == section.d[KeySubsections].l
         IN  <<section.d[KeyTitle]>>
             \o [j \in 1..Len(subsections) |->
                    JStr(Cat(PyStr(section.d[KeyTitle]) \o <<" ", "-", " ">>,
                             PyStr(subsections[j].d[KeyTitle])))]
             \o ExpectedTitles(sections, i + 1)

ExpectedCalls == <<JStr(<<"introduction">>)>> \o ExpectedTitles(article_plan.d[KeySections].l, 1)

\* The number of section and subsection contents held by the document and
\* by the section being built.
RECURSIVE StoredNodes(_)
StoredNodes(sections) ==
    IF sections = <<>> THEN 0
    ELSE 1 + Len(Head(sections).d[KeySubsections].l) + StoredNodes(Tail(sections))

\* The calls made so far are the first calls the plan requires, in order;
\* the content of every call but the introduction's and the conclusion's is
\* held by the document or by the section being built; the run is done
\* exactly when every call has been made.
CallsFollowPlan ==
    pc \in {"Introduction", "Section", "Subsection", "Conclusion", "Done"} =>
        /\ Len(calls) <= Len(ExpectedCalls)
        /\ \A k \in 1..Len(calls) : calls[k].section_title = ExpectedCalls[k]
        /\ (pc = "Done") = (Len(calls) = Len(ExpectedCalls))
        /\ pc \in {"Section", "Subsection", "Conclusion"} =>
              StoredNodes(article_content.d[KeySections].l
                          \o (IF arg = Unused THEN <<>> ELSE <<arg>>))
                 = Len(calls) - 1

\* C5: the calls of a run are made one after the other in the order
\* introduction, each section followed by its subsections, conclusion, none
\* skipped and none made twice, each after the content of the one before is
\* stored, and the run ends in Done.
C5_SequentialInPlanOrder ==
    /\ []CallsFollowPlan
    /\ [][calls' # calls /\ calls' # <<>> => calls' = Append(calls, calls'[Len(calls')])]_vars
    /\ (pc = "Introduction" ~> pc = "Done")

\* A run on a plan with two sections, the first with a subsection, made its
\* five calls and is done.
C5_Witness ==
    /\ pc = "Done"
    /\ Len(article_plan.d[KeySections].l) = 2
    /\ Len(article_plan.d[KeySections].l[1].d[KeySubsections].l) = 1
    /\ Len(calls) = 5
    /\ calls[3].section_title = JStr(<<"S1", " ", "-", " ", "T1_1">>)

----------------------------------------------------------------------------
(* The repair of truncated plan texts (SpecTruncated)                      *)

\* Texts with braces, brackets, commas and colons, as an article on a
\* programming language has them in its descriptions.
PunctuatedTexts ==
    {<<"{">>,
     <<"{", "}">>,
     <<"a", " ", "[", "1", ",", " ", "2", ",", "]">>,
     <<"d", " ", "=", " ", "{", "k", ":", " ", "v", ",", "}">>}

\* Well-formed plans, some with punctuation in a text value.
PunctuatedPlans ==
    {JDict(KeyIntroduction :> JStr(x) @@ MakePlan(<<1>>).d) : x \in PunctuatedTexts}
    \cup {JDict(KeySections
                   :> JList(<<JDict(KeySubsections
                                       :> JList(<<JDict(KeyDescription :> JStr(x)
                                                        @@ MakeSubsection(1, 1).d)>>)
                                    @@ MakeSection(1, 0).d)>>)
                @@ MakePlan(<<>>).d) : x \in PunctuatedTexts}

WellFormedPlans == {MakePlan(shape) : shape \in PlanShapes} \cup PunctuatedPlans

\* The text of a well-formed plan cut at any point, and the cuts after a
\* colon followed by white space.
TruncatedTexts ==
    LET cuts == UNION {Prefixes(CompactJson(v)) : v \in WellFormedPlans} IN
    cuts \cup {t \o <<" ">> : t \in {c \in cuts : c # <<>> /\ c[Len(c)] = ":"}}

TruncatedInit ==
    /\ pc = "call"
    /\ arg \in TruncatedTexts
    /\ ret = <<>>
    /\ title = <<>>
    /\ write_ok = TRUE
    /\ response = NoResponse
    /\ planner_calls = 0
    /\ plan_file = NoFile
    /\ article_plan = NoPlan
    /\ article_content = Unused
    /\ used_examples = {}
    /\ node = 0
    /\ calls = <<>>

SpecTruncated == TruncatedInit /\ [][FixNext]_vars

\* The positions of the quotes of a text.
Quotes(s) == {i \in 1..Len(s) : s[i] = "\""}

\* The text is an object text cut right after a key and its colon: it
\* starts with a brace and ends with a string, a colon and white space only.
EndsAfterKeyColon(s) ==
    /\ Len(s) >= 5
    /\ s[1] = "{"
    /\ Cardinality(Quotes(s)) >= 2
    /\ LET close == Max(Quotes(s)) IN
       /\ close < Len(s)
       /\ s[close + 1] = ":"
       /\ \A k \in (close + 2)..Len(s) : s[k] \in Whitespace
       /\ Max(Quotes(s) \ {close}) < close - 1

\* The key the text was cut after.
TruncatedKey(s) ==
    LET close == Max(Quotes(s)) IN
    SubSeq(s, Max(Quotes(s) \ {close}) + 1, close - 1)

\* C11 as stated: the repair of an object text cut right after a key and
\* its colon parses as an object in which that key is mapped to the empty
\* string.
C11_TruncatedKeyKeepsItsName ==
    pc = "return" /\ EndsAfterKeyColon(arg) =>
        LET parsed == JsonLoads(ret) IN
        /\ parsed.ok
        /\ parsed.val.kind = "dict"
        /\ TruncatedKey(arg) \in DOMAIN parsed.val.d
        /\ parsed.val.d[TruncatedKey(arg)] = JStr(<<>>)

\* C12 as stated: when a well-formed plan text has lost its final brace
\* only, the repair appends that one brace and the result parses to the
\* plan, every field intact.
C12_FinalBraceRestored ==
    pc = "return"
    /\ JsonLoads(arg \o <<"}">>).ok
    /\ _validate_json_structure(JsonLoads(arg \o <<"}">>).val) = "True" =>
        /\ ret = arg \o <<"}">>
        /\ JsonLoads(ret) = JsonLoads(arg \o <<"}">>)

----------------------------------------------------------------------------
(* The cleaning of the content models' texts (SpecSanitize)                *)

\* Bound: lexemes of the texts drawn exhaustively for the cleaning.
MaxContentLen == 5

ContentAlphabet == {Backtick, "a", " ", "\n", "html"}

\* Texts with code tags, fences and a planning line.
ContentSamples ==
    {<<"<", "code", ">", "x", "<", "/", "code", ">">>,
     <<"<", "code", " ", "class", "=", "\"", "language", "-", "go", "\"", ">",
       "x", "<", "/", "code", ">">>,
     <<"<", "pre", ">", "<", "code", " ", "class", "=", "\"", "language", "-",
       "python", "\"", ">", "x", "<", "/", "code", ">", "<", "/", "pre", ">">>,
     Fence \o <<"python", "\n", "x", " ", "=", " ", "1", "\n">> \o Fence,
     Fence \o <<"js", "\n", "x", "\n">> \o Fence,
     Fence \o <<"html", "\n", "<", "p", ">", "x", "<", "/", "p", ">">>,
     <<"Plan", ":", " ", "x", "\n", "<", "p", ">", "a", "<", "/", "p", ">",
       "\n", "b">>}
    \cup WriteTexts \cup ValidationTexts

ContentTexts ==
    {t \in SeqsUpTo(ContentAlphabet, MaxContentLen) : IsText(t)} \cup ContentSamples

\* The values of the language argument.
Languages == {"Python", "Go"}

\* A text of a content model and the language of the article.
SanitizeInit ==
    /\ pc = "call"
    /\ arg \in [content : ContentTexts, language : Languages]
    /\ ret = <<>>
    /\ response = NoResponse
    /\ used_examples = {}
    /\ title = <<>>
    /\ write_ok = TRUE
    /\ planner_calls = 0
    /\ plan_file = NoFile
    /\ article_plan = NoPlan
    /\ article_content = Unused
    /\ node = 0
    /\ calls = <<>>

\* clean_validated_content(content, language).
CallCleanValidatedContent ==
    /\ pc = "call"
    /\ ret' = clean_validated_content(arg.content, arg.language)
    /\ pc' = "cleaned"
    /\ UNCHANGED <<arg, title, response, write_ok, planner_calls, plan_file,
                   article_plan, article_content, used_examples, node, calls>>

\* Lines 245-265 of generate_section_content on the writer's text.
CallFilterResponse ==
    /\ pc = "call"
    /\ ret' = FilterResponse(arg.content)
    /\ pc' = "filtered"
    /\ UNCHANGED <<arg, title, response, write_ok, planner_calls, plan_file,
                   article_plan, article_content, used_examples, node, calls>>

\* The outcomes of the validator's model call after outcome w of the
\* writer's: it raises, returns nothing, returns the text drawn or the text
\* of ValidationTexts.
SanitizeValidations(w) ==
    IF w.kind # "text" THEN {NotCalled}
    ELSE {RaisedResponse, NoneResponse, w}
         \cup {TextResponse(t) : t \in ValidationTexts}

\* generate_section_content(title, topic, "introduction", description,
\* language) on a new writer: the language argument reaches the prompt only
\* (line 226), and validate_content is called without it (lines 271-277).
CallGenerateSection ==
    /\ pc = "call"
    /\ \E w \in {RaisedResponse, NoneResponse, TextResponse(arg.content)} :
       \E v \in SanitizeValidations(w) :
          LET result == generate_section_content(JStr(KeyIntroduction),
                                                  used_examples, w, v) IN
          /\ response' = [write |-> w, validation |-> v, exc |-> result.exc]
          /\ used_examples' = result.used_examples
          /\ ret' = result.content
    /\ pc' = "generated"
    /\ UNCHANGED <<arg, title, write_ok, planner_calls, plan_file,
                   article_plan, article_content, node, calls>>

SanitizeNext ==
    \/ CallCleanValidatedContent
    \/ CallFilterResponse
    \/ CallGenerateSection

SpecSanitize == SanitizeInit /\ [][SanitizeNext]_vars

\* C13 as stated: cleaning a cleaned text changes nothing, for
\* clean_validated_content and for the writer's filter.
C13_SanitizeIdempotent ==
    /\ pc = "cleaned" => clean_validated_content(ret, arg.language) = ret
    /\ pc = "filtered" => FilterResponse(ret) = ret


\* The positions of the code tags of a text.
CodeTags(s) == {i \in 1..(Len(s) - 1) : s[i] = "<" /\ s[i + 1] = "code"}

\* The languages the class attributes of the tag opened at i name.
TagLanguages(s, i) ==
    LET closers == {k \in i..Len(s) : s[k] = ">"}
        end == IF closers = {} THEN Len(s) ELSE Min(closers)
    IN  {s[k + 2] : k \in {n \in i..(end - 2) : s[n] = "language" /\ s[n + 1] = "-"}}

\* C16 as stated: in the content returned for a section generated for
\* language L, every code tag carries the class attribute of L and names
\* no other language.
C16_CodeTagsNameLanguage ==
    pc = "generated" /\ response.write.kind = "text" =>
        \A i \in CodeTags(ret) :
            /\ HasLanguageClass(ret, i + 2, arg.language)
            /\ TagLanguages(ret, i) = {Lower(arg.language)}

\* C17 as stated, its first part: the content returned for a section whose
\* write call succeeded holds no run of three backquotes.
C17_NoFenceRemains ==
    pc = "generated" /\ response.write.kind = "text" =>
        \A i \in 1..Len(ret) : ~FenceAt(ret, i)


\* A step of the cleaning failed in the call: re.sub raised TypeError on
\* the writer's message content (line 245) or on the validator's (line
\* 254), which was None.
CleaningFailed ==
    /\ pc = "generated"
    /\ \/ response.write.kind = "none"
       \/ response.validation.kind = "none"

----------------------------------------------------------------------------
(* Several runs of generate_article_content on one writer (SpecWriteRuns)  *)

\* Lines 331-339: generate_article_content is called again on a writer
\* whose previous run has returned.  response and ret keep the outcome of
\* the last call of that run until the next call.
RestartArticle ==
    /\ pc = "Done"
    /\ \E t \in WriteTitles :
          /\ title' = t
          /\ article_plan' \in WritePlans(t)
          /\ article_content' = EmptyArticle(t)
    /\ used_examples' = ResetExamples(used_examples)
    /\ arg' = Unused
    /\ node' = <<0, 0>>
    /\ calls' = <<>>
    /\ pc' = "Introduction"
    /\ UNCHANGED <<ret, response, write_ok, planner_calls, plan_file>>

WriteRunsNext == WriteNext \/ RestartArticle

SpecWriteRuns == WriteInit /\ [][WriteRunsNext]_vars

\* C15: a step inside a run removes no element from the set of used
\* examples, so its size never decreases, and every step that starts a run
\* leaves the set empty.
C15_ExamplesMonotonicAndReset ==
    [][/\ pc' # "Introduction"
          => /\ used_examples \subseteq used_examples'
             /\ Cardinality(used_examples) <= Cardinality(used_examples')
       /\ pc' = "Introduction" => used_examples' = {}]_vars

\* A second run has started with the empty set, after a run whose last
\* call recorded examples.
C15_Witness ==
    /\ pc = "Introduction"
    /\ calls = <<>>
    /\ response # NoResponse
    /\ response.write.kind = "text"
    /\ _extract_and_track_examples(FilterResponse(response.write.text)) # {}
    /\ used_examples = {}

----------------------------------------------------------------------------
(* Further properties of plan acquisition (SpecPlan)                       *)

\* C18 as stated: in the plan generate_plan returns, the title and the
\* description of every subsection of every section are texts.
C18_SubsectionFieldsArePlainText ==
    pc = "Planned" =>
        \A i \in 1..Len(article_plan.d[KeySections].l) :
            LET subsections == article_plan.d[KeySections].l[i].d[KeySubsections].l IN
            \A j \in 1..Len(subsections) :
                /\ subsections[j].d[KeyTitle].kind = "str"
                /\ subsections[j].d[KeyDescription].kind = "str"

\* C19 as stated: when the plan file is written, it holds the plan the
\* call returns, and that plan passes validation.
C19_ArtifactIsReturnedPlan ==
    pc = "Planned" /\ plan_file # NoFile =>
        /\ plan_file = article_plan
        /\ _validate_json_structure(plan_file) = "True"

\* C19: the plan file is written exactly when the response is a non-blank
\* text whose repaired form parses and the write succeeds; it then holds
\* the parsed structure, validated or not, and equals the plan returned
\* exactly when that structure passes validation.  The fallback plan the
\* call returns otherwise is not written.
C19_ArtifactIsParsedStructure ==
    pc = "Planned" =>
        /\ plan_file # NoFile
           <=> /\ response.kind = "text"
               /\ ~IsEmptyResponse(response)
               /\ ParsedResponse.ok
               /\ write_ok
        /\ plan_file # NoFile
           => /\ plan_file = ParsedResponse.val
              /\ plan_file = article_plan
                 <=> _validate_json_structure(plan_file) = "True"
              /\ _validate_json_structure(plan_file) # "True"
                 => article_plan = _get_fallback_plan(title)

\* The number 7 was written to the plan file and the fallback plan was
\* returned.
C19_Witness ==
    /\ pc = "Planned"
    /\ plan_file = JNum(7)
    /\ article_plan = _get_fallback_plan(title)
    /\ article_plan # plan_file

----------------------------------------------------------------------------
(* config.create_openai_client and generate_article.main (SpecCli)         *)

\* None: an environment variable that is not set, an option not given.
PyNone == "<None>"

\* not x, for a str or None
Falsy(x) == x \in {PyNone, ""}

\* x or y
PyOr(x, y) == IF Falsy(x) THEN y ELSE x

\* config.py line 28: os.getenv('API_PROVIDER', 'openrouter').
API_PROVIDER(env) ==
    IF env.API_PROVIDER = PyNone THEN "openrouter" ELSE env.API_PROVIDER

OPENROUTER_BASE_URL == "https://openrouter.ai/api/v1"
GEMINI_BASE_URL == "https://generativelanguage.googleapis.com/v1beta/openai/"

\* The result of a constructor: the exception leaving it ("None" when it
\* returns) and the client built.
RaisedConfigurationError == [exc |-> "ConfigurationError", base_url |-> "", api_key |-> ""]
OpenAI(base_url, api_key) == [exc |-> "None", base_url |-> base_url, api_key |-> api_key]

\* Lines 130-132 left out: the client is built whatever the key.
ClientWithoutKeyCheck(base_url, api_key) == OpenAI(base_url, api_key)

\* Lines 130-141.
ClientForKey(base_url, api_key) ==
    IF Falsy(api_key) THEN RaisedConfigurationError
    ELSE OpenAI(base_url, api_key)

\* Lines 106-141.
create_openai_client(provider, env) ==
    LET chosen == PyOr(provider, API_PROVIDER(env)) IN
    IF chosen = "openrouter"
    THEN ClientForKey(OPENROUTER_BASE_URL, env.OPENROUTER_API_KEY)
    ELSE IF chosen = "gemini"
    THEN ClientForKey(GEMINI_BASE_URL, env.GEMINI_API_KEY)
    ELSE RaisedConfigurationError

\* ArticlePlanner.__init__ (article_planner.py lines 42-47) and
\* ArticleValidator.__init__: the handler logs and raises again.
ClientOfProvider(provider, env) ==
    create_openai_client(PyOr(provider, API_PROVIDER(env)), env)

\* ArticleWriter.__init__ (article_writer.py lines 47-59): the writer's
\* client, then the validator's.
WriterClients(provider, env) ==
    LET client == ClientOfProvider(provider, env) IN
    IF client.exc # "None" THEN client ELSE ClientOfProvider(provider, env)

\* The command line and the environment of a run: the --provider option
\* and the three variables config.py reads.
Keys == {PyNone, "", "sk"}
CliRuns ==
    [kind : {"cli"},
     provider : {PyNone, "openrouter", "gemini", "azure"},
     API_PROVIDER : {PyNone, "", "openrouter", "gemini", "azure"},
     OPENROUTER_API_KEY : Keys,
     GEMINI_API_KEY : Keys]

\* The planner's model raises or returns a plan.
CliPlanResponses == {RaisedResponse, TextResponse(CompactJson(MakePlan(<<1>>)))}

CliInit ==
    /\ pc = "main"
    /\ arg \in CliRuns
    /\ title = <<"T">>
    /\ write_ok = TRUE
    /\ response = NoResponse
    /\ planner_calls = 0
    /\ plan_file = NoFile
    /\ article_plan = NoPlan
    /\ article_content = Unused
    /\ used_examples = {}
    /\ ret = <<>>
    /\ node = <<0, 0>>
    /\ calls = <<>>

\* generate_article.py lines 39-66: parse_args leaves with status 2 when
\* --provider is not one of its choices (SystemExit is no Exception, the
\* handler of line 111 lets it through).
ParseArgs ==
    /\ pc = "main"
    /\ pc' = IF arg.provider \in {PyNone, "openrouter", "gemini"}
             THEN "Step 1" ELSE "exit 2"
    /\ UNCHANGED <<arg, ret, title, response, write_ok, planner_calls, plan_file,
                   article_plan, article_content, used_examples, node, calls>>

\* Line 73: ArticlePlanner(provider=args.provider).  A ConfigurationError
\* is raised again at lines 82 and caught at line 111: sys.exit(1).
ConstructPlanner ==
    /\ pc = "Step 1"
    /\ pc' = IF ClientOfProvider(arg.provider, arg).exc # "None"
             THEN "exit 1" ELSE "generate_plan"
    /\ UNCHANGED <<arg, ret, title, response, write_ok, planner_calls, plan_file,
                   article_plan, article_content, used_examples, node, calls>>

\* Lines 75-79: generate_plan, which lets no exception out.
CliGeneratePlan ==
    /\ pc = "generate_plan"
    /\ \E r \in CliPlanResponses :
          LET result == generate_plan(title, r, write_ok, plan_file) IN
          /\ response' = r
          /\ article_plan' = result.plan
          /\ plan_file' = result.file
    /\ planner_calls' = planner_calls + 1
    /\ pc' = "Step 2"
    /\ UNCHANGED <<arg, ret, title, write_ok, article_content, used_examples,
                   node, calls>>

\* Line 87: ArticleWriter(provider=args.provider); its set of examples
\* starts empty (article_writer.py line 54).
ConstructWriter ==
    /\ pc = "Step 2"
    /\ pc' = IF WriterClients(arg.provider, arg).exc # "None"
             THEN "exit 1" ELSE "generate_article_content"
    /\ used_examples' = {}
    /\ UNCHANGED <<arg, ret, title, response, write_ok, planner_calls, plan_file,
                   article_plan, article_content, node, calls>>

\* Lines 89-94 and article_writer.py lines 331-339: the run of the writer
\* starts on the plan of step 1; its calls are the actions of the writer.
CliStartArticle ==
    /\ pc = "generate_article_content"
    /\ article_content' = EmptyArticle(title)
    /\ used_examples' = ResetExamples(used_examples)
    /\ arg' = Unused
    /\ node' = <<0, 0>>
    /\ calls' = <<>>
    /\ pc' = "Introduction"
    /\ UNCHANGED <<ret, title, response, write_ok, planner_calls, plan_file,
                   article_plan>>

\* Lines 99-113: create_html_article returns the file name and main
\* returns, or it raises and the handler of line 111 calls sys.exit(1).
CreateHtmlArticle ==
    /\ pc = "Done"
    /\ pc' \in {"exit 0", "exit 1"}
    /\ UNCHANGED <<arg, ret, title, response, write_ok, planner_calls, plan_file,
                   article_plan, article_content, used_examples, node, calls>>

CliNext ==
    \/ ParseArgs
    \/ ConstructPlanner
    \/ CliGeneratePlan
    \/ ConstructWriter
    \/ CliStartArticle
    \/ GenerateIntroduction
    \/ GenerateSection
    \/ GenerateSubsection
    \/ GenerateConclusion
    \/ CreateHtmlArticle

SpecCli == CliInit /\ [][CliNext]_vars

\* The provider of the run has no credential, or is none of the two
\* providers.
Misconfigured(run) ==
    LET chosen == PyOr(run.provider, API_PROVIDER(run)) IN
    \/ chosen \notin {"openrouter", "gemini"}
    \/ chosen = "openrouter" /\ Falsy(run.OPENROUTER_API_KEY)
    \/ chosen = "gemini" /\ Falsy(run.GEMINI_API_KEY)

\* C20: for a run whose provider is none of the two or has no credential,
\* create_openai_client raises ConfigurationError; main never gets past
\* the construction of the planner, makes no model call, has no plan, no
\* plan file and no content, and the step that constructs the planner
\* ends the process with status 1 (status 2 when parse_args has rejected
\* the option).
C20_MisconfigurationStopsBeforeGeneration ==
    /\ [](arg.kind = "cli" /\ Misconfigured(arg) =>
            /\ create_openai_client(arg.provider, arg).exc = "ConfigurationError"
            /\ pc \in {"main", "Step 1", "exit 1", "exit 2"}
            /\ planner_calls = 0
            /\ calls = <<>>
            /\ response = NoResponse
            /\ article_plan = NoPlan
            /\ plan_file = NoFile
            /\ article_content = Unused)
    /\ [][arg.kind = "cli" /\ Misconfigured(arg) /\ pc = "Step 1" => pc' = "exit 1"]_vars

\* The process has ended with status 1 for a run that selects gemini on
\* the command line and has a key for openrouter only.
C20_Witness ==
    /\ pc = "exit 1"
    /\ arg.kind = "cli"
    /\ arg.provider = "gemini"
    /\ arg.GEMINI_API_KEY = PyNone
    /\ arg.OPENROUTER_API_KEY = "sk"
    /\ planner_calls = 0
    /\ calls = <<>>

----------------------------------------------------------------------------
(* The line filter of generate_section_content (SpecFilter)                *)

\* Bound: lines of the texts drawn for the line filter.
MaxLines == 4

\* A plain line, an empty line, a line with a tag, two planning lines, one
\* of them with a tag.
LineKinds ==
    {<<"a">>,
     <<>>,
     <<"<", "p", ">", "b", "<", "/", "p", ">">>,
     <<"My", " ", "plan", ":">>,
     <<"<", "li", ">", "Confidence", " ", "score", "<", "/", "li", ">">>}

\* The texts of up to MaxLines such lines, bare or inside a fence.
LineTexts ==
    LET bare == {JoinLines(lines) : lines \in SeqsUpTo(LineKinds, MaxLines) \ {<<>>}} IN
    bare \cup {Fence \o <<"html", "\n">> \o t \o <<"\n">> \o Fence :
                 t \in {JoinLines(lines) : lines \in SeqsUpTo(LineKinds, 2) \ {<<>>}}}

FilterInit ==
    /\ pc = "call"
    /\ arg \in [content : LineTexts, language : {"Python"}]
    /\ ret = <<>>
    /\ response = NoResponse
    /\ used_examples = {}
    /\ title = <<>>
    /\ write_ok = TRUE
    /\ planner_calls = 0
    /\ plan_file = NoFile
    /\ article_plan = NoPlan
    /\ article_content = Unused
    /\ node = 0
    /\ calls = <<>>

SpecFilter == FilterInit /\ [][CallFilterResponse]_vars

\* The planning lines before line k.
MetaBefore(lines, k) == {m \in 1..(k - 1) : IsMetaLine(lines[m])}

\* Line k is kept: it is no planning line, and either no planning line
\* comes before it or a line with a tag lies after the last planning line
\* before it, up to line k itself.
IsKept(lines, k) ==
    /\ ~IsMetaLine(lines[k])
    /\ \/ MetaBefore(lines, k) = {}
       \/ \E t \in (Max(MetaBefore(lines, k)) + 1)..k : HasTag(lines[t])

\* The kept lines, in their order.
KeptLines(lines) ==
    LET kept == {k \in 1..Len(lines) : IsKept(lines, k)} IN
    [n \in 1..Cardinality(kept) |->
        lines[CHOOSE k \in kept : Cardinality({j \in kept : j <= k}) = n]]

\* C21: the line filter drops every planning line, drops the lines after
\* it up to the first line with a tag, keeps that line and the lines after
\* it up to the next planning line, and keeps every line before the first
\* planning line; the lines kept are unchanged and in their order.
C21_LineFilterSkipRegions ==
    pc = "filtered" =>
        ret = JoinLines(KeptLines(SplitLines(StripFences(arg.content, 1))))

\* The filter has run on a text with a kept line, a planning line, a
\* dropped line, a line with a tag that closes the region, and a line kept
\* after it.
C21_Witness ==
    /\ pc = "filtered"
    /\ LET lines == SplitLines(arg.content) IN
       /\ Len(lines) = 4
       /\ ~IsMetaLine(lines[1]) /\ IsMetaLine(lines[2])
       /\ ~IsMetaLine(lines[3]) /\ ~HasTag(lines[3])
       /\ ~IsMetaLine(lines[4]) /\ HasTag(lines[4])
       /\ ret = JoinLines(<<lines[1], lines[4]>>)

----------------------------------------------------------------------------
(* The hint of the prompt (SpecWriteRuns)                                  *)

\* The orders in which a set can be iterated.
Orders(S) ==
    {order \in [1..Cardinality(S) -> S] :
        \A i, j \in 1..Cardinality(S) : order[i] = order[j] => i = j}

\* Line 73: the header of the hint.
ExamplesHeader ==
    <<"\n", "\n", "IMPORTANT", " ", "-", " ", "EXEMPLES", " ", "DÉJÀ", " ",
      "UTILISÉS", " ", "À", " ", "ÉVITER", ":", "\n">>

\* Lines 71-73: the texts used_examples_str can be, one for every order
\* in which the set is iterated.
used_examples_str(examples) ==
    IF examples = {} THEN {<<>>}
    ELSE {ExamplesHeader
          \o JoinLines([k \in 1..Cardinality(examples) |-> <<"-", " ">> \o order[k]]) :
            order \in Orders(examples)}

\* The descriptors a hint lists: what follows the dash of its lines.
ListedDescriptors(hint) ==
    LET lines == SplitLines(hint) IN
    {SubSeq(lines[k], 3, Len(lines[k])) :
        k \in {n \in 1..Len(lines) :
                 Len(lines[n]) > 2 /\ lines[n][1] = "-" /\ lines[n][2] = " "}}

\* The descriptors the call with outcome r recorded.
RecordedBy(r) ==
    IF r # NoResponse /\ r.write.kind = "text"
    THEN _extract_and_track_examples(FilterResponse(r.write.text))
    ELSE {}

\* The descriptors recorded by the calls made so far in the run: those
\* listed for the last call and those it recorded.
RecordedInRun ==
    IF calls = <<>> THEN {}
    ELSE calls[Len(calls)].hint \cup RecordedBy(response)

\* C22: the hint of every generation call, in whatever order it is
\* written, lists exactly the descriptors recorded by the earlier calls of
\* the same run and is the empty text when there is none; the first call of
\* a run has the empty hint even after a run that recorded descriptors.
C22_HintListsExamplesOfRun ==
    [][Len(calls') = Len(calls) + 1 =>
          \A hint \in used_examples_str(calls'[Len(calls')].hint) :
             /\ ListedDescriptors(hint) = RecordedInRun
             /\ RecordedInRun = {} => hint = <<>>]_vars

\* The first call of a run failed and had the empty hint, the second
\* recorded two descriptors, and the hint of the third lists them.
C22_Witness ==
    /\ Len(calls) = 3
    /\ calls[1].hint = {} /\ calls[2].hint = {}
    /\ Cardinality(calls[3].hint) = 2
    /\ \A hint \in used_examples_str(calls[3].hint) :
          /\ hint # <<>>
          /\ ListedDescriptors(hint) = calls[3].hint

----------------------------------------------------------------------------
(* Failures of the two model calls of a node (SpecWrite)                   *)

\* The title of the node of the last call.
LastSectionTitle == calls[Len(calls)].section_title

\* The last call's write call returned text and its validation pass
\* failed: the validator's call raised, or its message content was None
\* and clean_validated_content raised.
ValidationPassFailed ==
    /\ response # NoResponse
    /\ response.write.kind = "text"
    /\ response.validation.kind \in {"raise", "none"}

CallMade == Len(calls') = Len(calls) + 1

\* The outcomes the validator's model call could have.
ValidatorOutcomes ==
    {RaisedResponse, NoneResponse} \cup {TextResponse(t) : t \in ValidationTexts}

\* The call just made, whose write call failed, returned the placeholder
\* of its node, left the set as it was, and made no validation call: its
\* result is the one it has under every outcome of the validator's model.
FailedWriteLeavesSet ==
    CallMade /\ response'.write.kind \in {"raise", "none"} =>
        /\ response'.exc = "None"
        /\ ret' = PlaceholderText(calls'[Len(calls')].section_title)
        /\ used_examples' = used_examples
        /\ response'.validation = NotCalled
        /\ \A v \in ValidatorOutcomes :
              generate_section_content(calls'[Len(calls')].section_title,
                                       used_examples, response'.write, v)
              = Generated(ret', used_examples)

\* C24 as stated: the set changes only in a step that makes a generation
\* call whose write call returned text, and a call whose write call fails
\* returns the placeholder, leaves the set and calls no validation.
C24_SetChangesOnlyInSuccessfulCall ==
    [][/\ used_examples' # used_examples
          => CallMade /\ response'.write.kind = "text"
       /\ FailedWriteLeavesSet]_vars

\* C24 amended: the set changes only in a step that makes a generation
\* call whose write call returned text, or in the step that starts a run,
\* which empties it; a call whose write call fails returns the
\* placeholder, leaves the set and calls no validation.
C24_SetChangesInSuccessfulCallOrReset ==
    [][/\ used_examples' # used_examples
          => \/ CallMade /\ response'.write.kind = "text"
             \/ calls' = <<>> /\ pc' = "Introduction" /\ used_examples' = {}
       /\ FailedWriteLeavesSet]_vars

\* The writer's call raised for a node after an earlier node had recorded
\* descriptors: the call returned the placeholder and the descriptors are
\* still in the set.
C24_Witness ==
    /\ Len(calls) > 1
    /\ response.write.kind = "raise"
    /\ response.validation = NotCalled
    /\ ret = PlaceholderText(LastSectionTitle)
    /\ used_examples # {}
    /\ used_examples = calls[Len(calls)].hint

----------------------------------------------------------------------------
(* The repair of well-formed plan texts (SpecTruncated)                    *)

\* The text handed to the repair is a well-formed object.
WellFormedObject(s) ==
    /\ JsonLoads(s).ok
    /\ JsonLoads(s).val.kind = "dict"

\* C25 as stated: the repair of a text that is already a well-formed
\* object, text values with braces, brackets, commas or colons included,
\* parses to the same structure, and generate_plan returns a valid plan
\* received in that text and not the fallback plan.
C25_RepairPreservesWellFormed ==
    pc = "return" /\ WellFormedObject(arg) =>
        /\ JsonLoads(ret).ok
        /\ JsonLoads(ret).val = JsonLoads(arg).val
        /\ _validate_json_structure(JsonLoads(arg).val) = "True"
           => generate_plan(<<"T">>, TextResponse(arg), TRUE, NoFile).plan
                 = JsonLoads(arg).val

====
